---- MODULE Spec2Model ----
(***************************************************************************)
(* State-machine model of web/app.py: the /search streaming generator      *)
(* (search.generate), GoogleSearcher.search_google and                     *)
(* LexicalChainAnalyzer.                                                   *)
(*                                                                         *)
(* Python strings that the code inspects character by character (rank      *)
(* filter, catalog group keys, result links) are tuples of one-character   *)
(* strings.  All other strings (names, urls) use the same representation   *)
(* so that values stay comparable.  A text handed to the spaCy pipeline is *)
(* a tuple of raw tokens.                                                  *)
(***************************************************************************)
EXTENDS Integers, Sequences, FiniteSets, TLC

\* ------------------------------------------------------------------ bounds
\* Cap on the number of candidates accumulated by one request.
MaxResults == 3
\* Cap on the number of organic results in one provider response.
MaxOrganic == 2

\* ------------------------------------------------------- python primitives
\* JSON null / Python None: a one-element tuple no character string equals.
NoneVal == <<"<None>">>
\* A key that the dict does not hold.
Absent == <<"<absent>">>

S_EMPTY == <<>>
S_SINTA_ == <<"S", "I", "N", "T", "A", "_">>
S_NON_SINTA == <<"N", "O", "N", "_", "S", "I", "N", "T", "A">>
S_SELECTED == <<"S", "E", "L", "E", "C", "T", "E", "D">>
S_NO_NAME == <<"T", "i", "d", "a", "k">>
S_DOT_PDF == <<".", "p", "d", "f">>
S_non == <<"n", "o", "n">>
S_nonsinta == <<"n", "o", "n", "s", "i", "n", "t", "a">>
S_non_sinta == <<"n", "o", "n", "_", "s", "i", "n", "t", "a">>
S_non_dash_sinta == <<"n", "o", "n", "-", "s", "i", "n", "t", "a">>

S_catatan == <<"c", "a", "t", "a", "t", "a", "n">>
Digits == {"0", "1", "2", "3", "4", "5", "6", "7", "8", "9"}
Whitespace == {" "}

\* bool(v) for the values a form field or a JSON string field can hold
Truthy(v) == v # NoneVal /\ v # Absent /\ v # S_EMPTY

\* str.lower(), one character
LowerChar(c) ==
  CASE c = "A" -> "a" [] c = "C" -> "c" [] c = "D" -> "d" [] c = "E" -> "e"
    [] c = "F" -> "f" [] c = "I" -> "i" [] c = "L" -> "l" [] c = "N" -> "n"
    [] c = "O" -> "o" [] c = "P" -> "p" [] c = "S" -> "s" [] c = "T" -> "t"
    [] OTHER -> c

StrLower(s) == [i \in DOMAIN s |-> LowerChar(s[i])]

RECURSIVE LStrip(_)
LStrip(s) == IF s # <<>> /\ Head(s) \in Whitespace THEN LStrip(Tail(s)) ELSE s

RECURSIVE RStrip(_)
RStrip(s) ==
  IF s # <<>> /\ s[Len(s)] \in Whitespace
    THEN RStrip(SubSeq(s, 1, Len(s) - 1))
    ELSE s

\* str.strip()
StrStrip(s) == RStrip(LStrip(s))

\* str.isdigit(): non-empty and every character a digit
StrIsDigit(s) == s # <<>> /\ \A i \in DOMAIN s : s[i] \in Digits

StartsWith(s, p) == Len(s) >= Len(p) /\ SubSeq(s, 1, Len(p)) = p

EndsWith(s, p) ==
  Len(s) >= Len(p) /\ SubSeq(s, Len(s) - Len(p) + 1, Len(s)) = p

\* dict.get(key, default) on a record whose missing keys hold Absent
DictGet(d, k, default) == IF d[k] = Absent THEN default ELSE d[k]

\* dict.setdefault(key, default)
SetDefault(d, k, default) == IF d[k] = Absent THEN [d EXCEPT ![k] = default] ELSE d

\* ------------------------------------------------------------- normalizer
\* The spaCy pipeline as process_text uses it, over the token vocabulary of
\* the model: token.is_alpha, token.is_stop, token.lemma_.
TokLower(tok) ==
  CASE tok = "Irigasi" -> "irigasi" [] tok = "Sistem" -> "sistem" [] OTHER -> tok

IsAlpha(tok) == tok \notin {"2024"}

IsStop(tok) == tok \in {"dan"}

Lemma(tok) == CASE tok = "sistemnya" -> "sistem" [] OTHER -> tok

RECURSIVE process_text(_)
process_text(text) ==
  IF text = <<>> THEN <<>>
  ELSE LET tok == TokLower(Head(text))
           rest == process_text(Tail(text))
       IN IF IsAlpha(tok) /\ ~IsStop(tok) THEN <<Lemma(tok)>> \o rest ELSE rest

\* term in snippet_terms (list membership)
InList(x, seq) == \E i \in DOMAIN seq : seq[i] = x

\* --------------------------------------------------- LexicalChainAnalyzer
\* __init__: three empty defaultdicts (functions with an empty key set)
EmptyDict == [k \in {} |-> 0]

NewAnalyzer ==
  [lexical_chains |-> EmptyDict,
   term_frequencies |-> EmptyDict,
   term_details |-> EmptyDict]

\* d[k] of a defaultdict: the default when the key is missing
DefaultGet(d, k, default) == IF k \in DOMAIN d THEN d[k] ELSE default

DictPut(d, k, v) == IF k \in DOMAIN d THEN [d EXCEPT ![k] = v] ELSE d @@ (k :> v)

\* connected_terms[next_term] += 1 on an insertion-ordered dict, kept as a
\* sequence of [term, count] items
ConnectedIncr(items, t) ==
  IF \E i \in DOMAIN items : items[i].term = t
    THEN [i \in DOMAIN items |->
            IF items[i].term = t
              THEN [items[i] EXCEPT !.count = @ + 1]
              ELSE items[i]]
    ELSE Append(items, [term |-> t, count |-> 1])

\* Mutant of ChainStep: the frequency of the following term is counted
ChainStep_CountsNext(an, all_terms, i) ==
  LET current_term == all_terms[i]
      next_term == all_terms[i + 1]
      det == DefaultGet(an.term_details, current_term,
                        [count |-> 0, connected_terms |-> <<>>])
  IN [lexical_chains |->
        DictPut(an.lexical_chains, current_term,
                Append(DefaultGet(an.lexical_chains, current_term, <<>>), next_term)),
      term_frequencies |->
        DictPut(an.term_frequencies, next_term,
                DefaultGet(an.term_frequencies, next_term, 0) + 1),
      term_details |->
        DictPut(an.term_details, current_term,
                [count |-> det.count + 1,
                 connected_terms |-> ConnectedIncr(det.connected_terms, next_term)])]

\* One iteration of the loop of build_chains (lines 40-53) at index i
\* (1-based) of all_terms.
ChainStep(an, all_terms, i) ==
  LET current_term == all_terms[i]
      next_term == all_terms[i + 1]
      det == DefaultGet(an.term_details, current_term,
                        [count |-> 0, connected_terms |-> <<>>])
  IN [lexical_chains |->
        DictPut(an.lexical_chains, current_term,
                Append(DefaultGet(an.lexical_chains, current_term, <<>>), next_term)),
      term_frequencies |->
        DictPut(an.term_frequencies, current_term,
                DefaultGet(an.term_frequencies, current_term, 0) + 1),
      term_details |->
        DictPut(an.term_details, current_term,
                [count |-> det.count + 1,
                 connected_terms |-> ConnectedIncr(det.connected_terms, next_term)])]

RECURSIVE ChainLoop(_, _, _)
ChainLoop(an, all_terms, i) ==
  IF i > Len(all_terms) - 1 THEN an
  ELSE ChainLoop(ChainStep(an, all_terms, i), all_terms, i + 1)

RECURSIVE ExtendTerms(_)
ExtendTerms(snips) ==
  IF snips = <<>> THEN <<>>
  ELSE process_text(Head(snips)) \o ExtendTerms(Tail(snips))

\* Mutant of build_chains: links are built inside the query and inside each
\* snippet, never across their boundaries
RECURSIVE ChainEach(_, _)
ChainEach(an, texts) ==
  IF texts = <<>> THEN an
  ELSE ChainEach(ChainLoop(an, process_text(Head(texts)), 1), Tail(texts))

build_chains_NoCrossing(an, query, snips) ==
  [analyzer |-> ChainEach(an, <<query>> \o snips), query_terms |-> process_text(query)]

\* Mutant of build_chains: the query terms are left out of the corpus
build_chains_SnippetsOnly(an, query, snips) ==
  [analyzer |-> ChainLoop(an, ExtendTerms(snips), 1), query_terms |-> process_text(query)]

\* build_chains(query, snippets): the analyzer after the call, and the
\* query terms it returns
build_chains(an, query, snips) ==
  LET q_terms == process_text(query)
      all_terms == q_terms \o ExtendTerms(snips)
  IN [analyzer |-> ChainLoop(an, all_terms, 1), query_terms |-> q_terms]

\* The inner loop of calculate_relevance (lines 68-72): the connected terms
\* of term that occur in the snippet
RECURSIVE ConnectedIn(_, _)
ConnectedIn(items, snippet_terms) ==
  IF items = <<>> THEN <<>>
  ELSE LET it == Head(items)
           rest == ConnectedIn(Tail(items), snippet_terms)
       IN IF InList(it.term, snippet_terms) THEN <<it>> \o rest ELSE rest

\* Mutant of RelevanceLoop: a connected term adds its count, not 1
RECURSIVE SumCounts(_)
SumCounts(items) ==
  IF items = <<>> THEN 0 ELSE Head(items).count + SumCounts(Tail(items))

RECURSIVE RelevanceLoop_Weighted(_, _, _, _)
RelevanceLoop_Weighted(an, q_terms, snippet_terms, acc) ==
  IF q_terms = <<>> THEN acc
  ELSE LET term == Head(q_terms)
       IN IF InList(term, snippet_terms)
            THEN LET term_score == DefaultGet(an.term_frequencies, term, 0)
                     items == DefaultGet(an.term_details, term,
                                         [count |-> 0, connected_terms |-> <<>>]).connected_terms
                     connected == ConnectedIn(items, snippet_terms)
                 IN RelevanceLoop_Weighted(an, Tail(q_terms), snippet_terms,
                      [score |-> acc.score + term_score + SumCounts(connected),
                       term_analysis |->
                         Append(acc.term_analysis,
                                [term |-> term, score |-> term_score,
                                 connected_terms |-> connected])])
            ELSE RelevanceLoop_Weighted(an, Tail(q_terms), snippet_terms, acc)

RECURSIVE RelevanceLoop(_, _, _, _)
RelevanceLoop(an, q_terms, snippet_terms, acc) ==
  IF q_terms = <<>> THEN acc
  ELSE LET term == Head(q_terms)
       IN IF InList(term, snippet_terms)
            THEN LET term_score == DefaultGet(an.term_frequencies, term, 0)
                     items == DefaultGet(an.term_details, term,
                                         [count |-> 0, connected_terms |-> <<>>]).connected_terms
                     connected == ConnectedIn(items, snippet_terms)
                 IN RelevanceLoop(an, Tail(q_terms), snippet_terms,
                      [score |-> acc.score + term_score + Len(connected),
                       term_analysis |->
                         Append(acc.term_analysis,
                                [term |-> term, score |-> term_score,
                                 connected_terms |-> connected])])
            ELSE RelevanceLoop(an, Tail(q_terms), snippet_terms, acc)

\* Mutant of calculate_relevance: duplicate query terms are scored once
RECURSIVE Dedup(_)
Dedup(seq) ==
  IF seq = <<>> THEN <<>>
  ELSE LET rest == Dedup(SubSeq(seq, 1, Len(seq) - 1))
       IN IF InList(seq[Len(seq)], rest) THEN rest ELSE Append(rest, seq[Len(seq)])

calculate_relevance_Dedup(an, q_terms, snippet) ==
  RelevanceLoop(an, Dedup(q_terms), process_text(snippet),
                [score |-> 0, term_analysis |-> <<>>])

calculate_relevance(an, q_terms, snippet) ==
  RelevanceLoop(an, q_terms, process_text(snippet),
                [score |-> 0, term_analysis |-> <<>>])

\* ---------------------------------------------------------- GoogleSearcher
\* The loop over results["organic_results"] (lines 104-116): keep the
\* results whose link ends in .pdf, case-insensitively
RECURSIVE OrganicToArticles(_, _)
OrganicToArticles(organic, journal_info) ==
  IF organic = <<>> THEN <<>>
  ELSE LET result == Head(organic)
           link == DictGet(result, "link", S_EMPTY)
           rest == OrganicToArticles(Tail(organic), journal_info)
       IN IF ~EndsWith(StrLower(link), S_DOT_PDF) THEN rest
          ELSE <<[judul |-> DictGet(result, "title", S_EMPTY),
                  link |-> link,
                  snippet |-> DictGet(result, "snippet", S_EMPTY),
                  jurnal |-> journal_info.nama_jurnal,
                  peringkat_sinta |-> DictGet(journal_info, "sinta_rank", S_EMPTY),
                  website_jurnal |-> journal_info.link]>> \o rest

\* search_google(query, journal_info) for a given provider response: any
\* exception of the request (network error, HTTP status, undecodable body)
\* is caught and gives no article
search_google(journal_info, response) ==
  IF response.kind = "error" THEN <<>>
  ELSE IF ~response.has_organic THEN <<>>
  ELSE OrganicToArticles(response.organic_results, journal_info)

\* [r.get('snippet', '') for r in results]
RECURSIVE SnippetsOf(_)
SnippetsOf(results) ==
  IF results = <<>> THEN <<>>
  ELSE <<Head(results).snippet>> \o SnippetsOf(Tail(results))

\* ------------------------------------------------------------ source choice
\* Mutant of group_matches: the filter is compared without strip().lower()
group_matches_Raw(selected_rank, group_key) ==
  IF ~Truthy(selected_rank)
    THEN StartsWith(group_key, S_SINTA_) \/ group_key = S_NON_SINTA
    ELSE IF selected_rank \in {S_non, S_nonsinta, S_non_sinta, S_non_dash_sinta}
      THEN group_key = S_NON_SINTA
      ELSE IF StrIsDigit(selected_rank)
        THEN group_key = S_SINTA_ \o selected_rank
        ELSE FALSE

\* group_matches(selected_rank, group_key), lines 180-188
group_matches(selected_rank, group_key) ==
  IF ~Truthy(selected_rank)
    THEN StartsWith(group_key, S_SINTA_) \/ group_key = S_NON_SINTA
    ELSE LET sr == StrLower(StrStrip(selected_rank))
         IN IF sr \in {S_non, S_nonsinta, S_non_sinta, S_non_dash_sinta}
              THEN group_key = S_NON_SINTA
              ELSE IF StrIsDigit(sr)
                THEN group_key = S_SINTA_ \o sr
                ELSE FALSE

\* lines 193-196: the group is searched
GroupSearched(selected_rank, group_key) ==
  /\ StartsWith(group_key, S_SINTA_) \/ group_key = S_NON_SINTA
  /\ group_matches(selected_rank, group_key)

\* line 169: the explicit entry is skipped
ExplicitSkipped(j) ==
  ~Truthy(DictGet(j, "nama_jurnal", NoneVal)) /\ ~Truthy(DictGet(j, "link", NoneVal))

\* lines 171-173: the three setdefault calls
NormalizeExplicit(j) ==
  LET j1 == SetDefault(j, "nama_jurnal", DictGet(j, "link", S_NO_NAME))
      j2 == SetDefault(j1, "link", DictGet(j1, "link", S_EMPTY))
  IN SetDefault(j2, "sinta_rank", DictGet(j2, "sinta_rank", S_SELECTED))

\* json.loads(sources_json) followed by the isinstance check (lines 159-165)
SourcesValid(text) == text.kind = "list"

\* bool(sources_json), line 158
SourcesGiven(text) == text.kind \notin {"none", "empty"}

\* The first catalog file that exists (lines 141-148)
LoadCatalog(fs) ==
  IF fs.generated.exists THEN fs.generated
  ELSE IF fs.original.exists THEN fs.original
  ELSE [exists |-> FALSE, data |-> <<>>]

\* ---------------------------------------------------------------- journals
\* k in data
HasKey(data, k) == \E i \in DOMAIN data : data[i].key = k

\* data.get(k, default)
DataGet(data, k, default) ==
  IF HasKey(data, k)
    THEN data[CHOOSE i \in DOMAIN data : data[i].key = k].entries
    ELSE default

\* f'SINTA_{i}' for i in range(1, 7)
SintaKeys == [i \in 1..6 |-> S_SINTA_ \o <<<<"1", "2", "3", "4", "5", "6">>[i]>>]

\* lines 241-247: the rank keys the catalog has, SINTA_1..SINTA_6 and then
\* NON_SINTA
ordered(data) ==
  SelectSeq(SintaKeys, LAMBDA k : HasKey(data, k))
    \o (IF HasKey(data, S_NON_SINTA) THEN <<S_NON_SINTA>> ELSE <<>>)

\* lines 249-251: the dict handed to jsonify, in insertion order
ResultDict(data) ==
  <<[key |-> S_catatan, entries |-> DataGet(data, S_catatan, S_EMPTY)]>>
    \o [i \in DOMAIN ordered(data) |->
          [key |-> ordered(data)[i], entries |-> DataGet(data, ordered(data)[i], <<>>)]]

\* The keys result can have, in code point order ("N" < "S" < "c")
SortedKeys == <<S_NON_SINTA>> \o SintaKeys \o <<S_catatan>>

\* jsonify(result), line 253: the members of the object are written in
\* insertion order, or in key order when the application's JSON provider
\* sorts keys
jsonify(dict, sort_keys) ==
  IF sort_keys
    THEN LET keys == SelectSeq(SortedKeys, LAMBDA k : HasKey(dict, k))
         IN [i \in DOMAIN keys |-> [key |-> keys[i], entries |-> DataGet(dict, keys[i], <<>>)]]
    ELSE dict

\* ------------------------------------------------------------------- sort
\* df.sort_values('relevance_score', ascending=False) with the default
\* kind='quicksort', which is not a stable sort: every order of the rows
\* with non-increasing score is a possible outcome.  An order is the
\* sequence of the original row labels (df.index after the sort).
Orders(n) ==
  {p \in [1..n -> 1..n] : \A i, j \in 1..n : i # j => p[i] # p[j]}

\* Mutant of sort_values: ascending=True
sort_values_Ascending(results) ==
  {p \in Orders(Len(results)) :
     \A i \in 1..(Len(results) - 1) :
        results[p[i]].relevance_score <= results[p[i + 1]].relevance_score}

sort_values(results) ==
  {p \in Orders(Len(results)) :
     \A i \in 1..(Len(results) - 1) :
        results[p[i]].relevance_score >= results[p[i + 1]].relevance_score}

\* df.to_dict(orient='records')
to_dict(results, order) == [i \in DOMAIN order |-> results[order[i]]]

\* ------------------------------------------------------------------ inputs
\* Source descriptors.  An entry is a JSON object; a catalog row that has a
\* name has a link.
JournalA == [nama_jurnal |-> <<"A">>, link |-> <<"a">>, sinta_rank |-> Absent]
JournalB == [nama_jurnal |-> <<"B">>, link |-> <<"b">>, sinta_rank |-> Absent]
JournalC == [nama_jurnal |-> <<"C">>, link |-> <<"c">>, sinta_rank |-> <<"S", "9">>]
HeaderRow == [nama_jurnal |-> Absent, link |-> Absent, sinta_rank |-> Absent]
EmptyNameRow == [nama_jurnal |-> S_EMPTY, link |-> <<"x">>, sinta_rank |-> Absent]
NullRow == [nama_jurnal |-> NoneVal, link |-> S_EMPTY, sinta_rank |-> Absent]
LinkOnly == [nama_jurnal |-> Absent, link |-> <<"u">>, sinta_rank |-> NoneVal]
NameOnly == [nama_jurnal |-> <<"N">>, link |-> Absent, sinta_rank |-> Absent]

S_OTHER == <<"O", "T", "H", "E", "R">>

\* list_journal.json
CatalogOriginal ==
  <<[key |-> S_catatan, entries |-> <<>>],
    [key |-> S_SINTA_ \o <<"1">>, entries |-> <<HeaderRow, JournalA>>],
    [key |-> S_SINTA_ \o <<"2">>, entries |-> <<JournalB>>],
    [key |-> S_NON_SINTA, entries |-> <<JournalC>>]>>

\* list_journal_from_list_html.json: groups in another order, and a group
\* under a key that is no rank group
CatalogGenerated ==
  <<[key |-> S_NON_SINTA, entries |-> <<JournalC, EmptyNameRow>>],
    [key |-> S_OTHER, entries |-> <<JournalB>>],
    [key |-> S_SINTA_ \o <<"2">>, entries |-> <<>>],
    [key |-> S_SINTA_ \o <<"1">>, entries |-> <<JournalA>>]>>

NoFile == [exists |-> FALSE, data |-> <<>>]

\* The catalog files on disk: none, the original only, or both
FileSystems ==
  {[generated |-> NoFile, original |-> NoFile],
   [generated |-> NoFile, original |-> [exists |-> TRUE, data |-> CatalogOriginal]],
   [generated |-> [exists |-> TRUE, data |-> CatalogGenerated],
    original |-> [exists |-> TRUE, data |-> CatalogOriginal]]}

\* request.form.get('sinta_rank')
RankFilters ==
  {NoneVal, S_EMPTY, <<"1">>, <<" ", "2", " ">>, <<"0", "2">>,
   <<"N", "O", "N">>, <<"N", "o", "n", "-", "S", "i", "n", "t", "a">>,
   <<"n", "o", "n", "_", "s", "i", "n", "t", "a">>, <<"n", "o", "n", "s", "i", "n", "t", "a">>,
   S_SINTA_ \o <<"1">>}

\* request.form.get('sources_json'): the field missing, empty, a text that
\* is no JSON, a JSON text that is no list, or a JSON list of objects
SourcesTexts ==
  {[kind |-> "none", items |-> <<>>],
   [kind |-> "empty", items |-> <<>>],
   [kind |-> "unparsable", items |-> <<>>],
   [kind |-> "nonlist", items |-> <<>>],
   [kind |-> "list", items |-> <<>>],
   [kind |-> "list", items |-> <<JournalA, HeaderRow, LinkOnly>>],
   [kind |-> "list", items |-> <<EmptyNameRow, NullRow, NameOnly, JournalC>>]}

\* request.form.get('topic'), as raw tokens
Topics ==
  {<<"Irigasi", "irigasi">>, <<"dan">>, <<"air", "sistemnya">>}

\* Organic results a provider response is made of
OrganicResults ==
  {[title |-> <<"t", "1">>, link |-> <<"p", ".", "p", "d", "f">>,
    snippet |-> <<"Sistem", "Irigasi", "2024">>],
   [title |-> Absent, link |-> <<"q", ".", "P", "D", "F">>,
    snippet |-> <<"air", "dan", "air">>],
   [title |-> <<"t", "3">>, link |-> <<"s", ".", "h", "t", "m">>,
    snippet |-> Absent]}

RECURSIVE SeqsUpTo(_, _)
SeqsUpTo(S, n) ==
  IF n = 0 THEN {<<>>}
  ELSE LET shorter == SeqsUpTo(S, n - 1)
       IN shorter \cup {Append(q, x) : q \in shorter, x \in S}

\* What the provider can answer to one request
Responses ==
  {[kind |-> "error", has_organic |-> FALSE, organic_results |-> <<>>],
   [kind |-> "json", has_organic |-> FALSE, organic_results |-> <<>>]}
  \cup {[kind |-> "json", has_organic |-> TRUE, organic_results |-> o] :
          o \in SeqsUpTo(OrganicResults, MaxOrganic)}

\* The requests: every rank filter with no sources_json, and every
\* sources_json with no rank filter and with one
Requests ==
  {[topic |-> t, sinta_rank |-> f, sources_json |-> [kind |-> "none", items |-> <<>>]] :
     t \in Topics, f \in RankFilters}
  \cup {[topic |-> t, sinta_rank |-> f, sources_json |-> x] :
          t \in Topics, f \in {NoneVal, <<"1">>}, x \in SourcesTexts}

\* ------------------------------------------------------------------- state
VARIABLES
  topic,          \* form field topic
  sinta_rank,     \* form field sinta_rank
  sources_json,   \* form field sources_json
  files,          \* the two catalog files on disk
  pc,             \* position of the generator
  journals_data,  \* the loaded catalog
  selected,       \* the parsed explicit list
  idx,            \* explicit mode: index of the current entry
  gi,             \* catalog mode: index of the current group
  ji,             \* catalog mode: index of the current row of the group
  journal,        \* the source being announced / fetched
  all_results,    \* accumulated candidates
  snippets,       \* pooled snippets
  analyzer,       \* the request's LexicalChainAnalyzer
  query_terms,    \* result of build_chains
  scored,         \* number of candidates scored so far
  df_index,       \* row labels of df after sort_values
  stream,         \* events yielded so far
  fetchLog,       \* every search_google call so far: its journal_info,
                  \* whether the request raised, and what it returned
  builds,         \* number of build_chains calls so far
  jresp,          \* the response of the /journals handler
  client,         \* the caller's end of the connection
  detected,       \* the server has found the connection closed
  other           \* the frame of generate() of a second, concurrent request

vars ==
  <<topic, sinta_rank, sources_json, files, pc, journals_data, selected, idx,
    gi, ji, journal, all_results, snippets, analyzer, query_terms, scored,
    df_index, stream, fetchLog, builds, jresp, client, detected,
    other>>

request == <<topic, sinta_rank, sources_json, files>>
loopvars == <<selected, idx, gi, ji, journal>>
postvars == <<analyzer, query_terms, scored, df_index, builds>>
\* state outside the frame of generate()
others == <<jresp, client, detected, other>>
session ==
  <<topic, sinta_rank, sources_json, pc, journals_data, selected, idx, gi, ji,
    journal, all_results, snippets, analyzer, query_terms, scored, df_index,
    stream, fetchLog, builds>>

NoJournal == HeaderRow

NoResponse == [status |-> 0, body |-> <<>>]

\* No second request is running
NoOther ==
  [topic |-> <<>>, sinta_rank |-> NoneVal, pc |-> "idle", todo |-> <<>>,
   journal |-> NoJournal, all_results |-> <<>>, snippets |-> <<>>,
   analyzer |-> NewAnalyzer, query_terms |-> <<>>, scored |-> 0,
   stream |-> <<>>, fetchLog |-> <<>>]

ErrorCatalog == [type |-> "error", msg |-> "no_catalog"]
ErrorSources == [type |-> "error", msg |-> "bad_sources_json"]
DoneEvent == [type |-> "done"]
Progress(name, rank) == [type |-> "progress", name |-> name, rank |-> rank]
Batch(articles) == [type |-> "batch", articles |-> articles]

\* generate() up to its first statement that can yield: the form is read
\* (lines 132-134), a fresh searcher and analyzer are made (137-138)
Init ==
  /\ \E r \in Requests :
       /\ topic = r.topic
       /\ sinta_rank = r.sinta_rank
       /\ sources_json = r.sources_json
  /\ files \in FileSystems
  /\ pc = "load"
  /\ journals_data = <<>>
  /\ selected = <<>>
  /\ idx = 1
  /\ gi = 1
  /\ ji = 1
  /\ journal = NoJournal
  /\ all_results = <<>>
  /\ snippets = <<>>
  /\ analyzer = NewAnalyzer
  /\ query_terms = <<>>
  /\ scored = 0
  /\ df_index = <<>>
  /\ stream = <<>>
  /\ fetchLog = <<>>
  /\ builds = 0
  /\ jresp = NoResponse
  /\ client = "connected"
  /\ detected = FALSE
  /\ other = NoOther

\* ----------------------------------------------------------------- actions
\* Mutant of LoadMissing: the error is yielded but the generator does not
\* return
LoadMissing_FallThrough ==
  /\ pc = "load"
  /\ ~LoadCatalog(files).exists
  /\ stream' = Append(stream, ErrorCatalog)
  /\ pc' = "mode"
  /\ UNCHANGED <<others, request, journals_data, loopvars, all_results, snippets,
                 postvars, fetchLog>>

\* lines 141-152: load the catalog; without one, yield the error and return
LoadMissing ==
  /\ pc = "load"
  /\ ~LoadCatalog(files).exists
  /\ stream' = Append(stream, ErrorCatalog)
  /\ pc' = "done"
  /\ UNCHANGED <<others, request, journals_data, loopvars, all_results, snippets,
                 postvars, fetchLog>>

LoadFound ==
  /\ pc = "load"
  /\ LoadCatalog(files).exists
  /\ journals_data' = LoadCatalog(files).data
  /\ pc' = "mode"
  /\ UNCHANGED <<others, request, loopvars, all_results, snippets, postvars, stream,
                 fetchLog>>

\* Mutant of ParseInvalid: the error is yielded but the generator goes on
\* into the catalog loop
ParseInvalid_NoReturn ==
  /\ pc = "mode"
  /\ SourcesGiven(sources_json)
  /\ ~SourcesValid(sources_json)
  /\ stream' = Append(stream, ErrorSources)
  /\ gi' = 1
  /\ ji' = 1
  /\ pc' = "catalog"
  /\ UNCHANGED <<others, request, journals_data, selected, idx, journal, all_results,
                 snippets, postvars, fetchLog>>

\* lines 158-165: sources_json given but not a JSON list
ParseInvalid ==
  /\ pc = "mode"
  /\ SourcesGiven(sources_json)
  /\ ~SourcesValid(sources_json)
  /\ stream' = Append(stream, ErrorSources)
  /\ pc' = "done"
  /\ UNCHANGED <<others, request, journals_data, loopvars, all_results, snippets,
                 postvars, fetchLog>>

\* lines 158-167: sources_json is a JSON list, enter the explicit loop
ParseValid ==
  /\ pc = "mode"
  /\ SourcesGiven(sources_json)
  /\ SourcesValid(sources_json)
  /\ selected' = sources_json.items
  /\ idx' = 1
  /\ pc' = "explicit"
  /\ UNCHANGED <<others, request, journals_data, gi, ji, journal, all_results,
                 snippets, postvars, stream, fetchLog>>

\* lines 179-191: no sources_json, enter the catalog loop
EnterCatalog ==
  /\ pc = "mode"
  /\ ~SourcesGiven(sources_json)
  /\ gi' = 1
  /\ ji' = 1
  /\ pc' = "catalog"
  /\ UNCHANGED <<others, request, journals_data, selected, idx, journal, all_results,
                 snippets, postvars, stream, fetchLog>>

\* line 169-170: continue
ExplicitSkip ==
  /\ pc = "explicit"
  /\ idx <= Len(selected)
  /\ ExplicitSkipped(selected[idx])
  /\ idx' = idx + 1
  /\ UNCHANGED <<others, request, pc, journals_data, selected, gi, ji, journal,
                 all_results, snippets, postvars, stream, fetchLog>>

\* Mutant of ExplicitAnnounce: the fetch is issued without the progress
\* event
ExplicitAnnounce_NoYield ==
  /\ pc = "explicit"
  /\ idx <= Len(selected)
  /\ ~ExplicitSkipped(selected[idx])
  /\ journal' = NormalizeExplicit(selected[idx])
  /\ selected' = [selected EXCEPT ![idx] = NormalizeExplicit(selected[idx])]
  /\ pc' = "explicit_fetch"
  /\ UNCHANGED <<others, request, journals_data, idx, gi, ji, all_results, snippets,
                 postvars, stream, fetchLog>>

\* lines 171-174: normalise the entry and yield its progress event
ExplicitAnnounce ==
  /\ pc = "explicit"
  /\ idx <= Len(selected)
  /\ ~ExplicitSkipped(selected[idx])
  /\ LET j == NormalizeExplicit(selected[idx])
     IN /\ journal' = j
        /\ selected' = [selected EXCEPT ![idx] = j]
        /\ stream' = Append(stream,
             Progress(j.nama_jurnal, DictGet(j, "sinta_rank", NoneVal)))
  /\ pc' = "explicit_fetch"
  /\ UNCHANGED <<others, request, journals_data, idx, gi, ji, all_results, snippets,
                 postvars, fetchLog>>

\* end of the explicit list
ExplicitEnd ==
  /\ pc = "explicit"
  /\ idx > Len(selected)
  /\ pc' = "build"
  /\ UNCHANGED <<others, request, journals_data, loopvars, all_results, snippets,
                 postvars, stream, fetchLog>>

\* lines 193-196: the group is no rank group or the filter excludes it
CatalogSkipGroup ==
  /\ pc = "catalog"
  /\ gi <= Len(journals_data)
  /\ ~GroupSearched(sinta_rank, journals_data[gi].key)
  /\ gi' = gi + 1
  /\ ji' = 1
  /\ UNCHANGED <<others, request, pc, journals_data, selected, idx, journal,
                 all_results, snippets, postvars, stream, fetchLog>>

\* Mutant of CatalogSkipRow: break out of the loops instead of continue
CatalogSkipRow_Break ==
  /\ pc = "catalog"
  /\ gi <= Len(journals_data)
  /\ GroupSearched(sinta_rank, journals_data[gi].key)
  /\ ji <= Len(journals_data[gi].entries)
  /\ ~Truthy(DictGet(journals_data[gi].entries[ji], "nama_jurnal", NoneVal))
  /\ pc' = "build"
  /\ UNCHANGED <<others, request, journals_data, loopvars, all_results, snippets,
                 postvars, stream, fetchLog>>

\* lines 199-200: a row without a name
CatalogSkipRow ==
  /\ pc = "catalog"
  /\ gi <= Len(journals_data)
  /\ GroupSearched(sinta_rank, journals_data[gi].key)
  /\ ji <= Len(journals_data[gi].entries)
  /\ ~Truthy(DictGet(journals_data[gi].entries[ji], "nama_jurnal", NoneVal))
  /\ ji' = ji + 1
  /\ UNCHANGED <<others, request, pc, journals_data, selected, idx, gi, journal,
                 all_results, snippets, postvars, stream, fetchLog>>

\* lines 201-202: label the row with its group and yield its progress event
CatalogAnnounce ==
  /\ pc = "catalog"
  /\ gi <= Len(journals_data)
  /\ GroupSearched(sinta_rank, journals_data[gi].key)
  /\ ji <= Len(journals_data[gi].entries)
  /\ Truthy(DictGet(journals_data[gi].entries[ji], "nama_jurnal", NoneVal))
  /\ LET rank == journals_data[gi].key
         j == [journals_data[gi].entries[ji] EXCEPT !.sinta_rank = rank]
     IN /\ journal' = j
        /\ journals_data' = [journals_data EXCEPT ![gi].entries[ji] = j]
        /\ stream' = Append(stream, Progress(j.nama_jurnal, rank))
  /\ pc' = "catalog_fetch"
  /\ UNCHANGED <<others, request, selected, idx, gi, ji, all_results, snippets,
                 postvars, fetchLog>>

\* the rows of the group are exhausted
CatalogGroupEnd ==
  /\ pc = "catalog"
  /\ gi <= Len(journals_data)
  /\ GroupSearched(sinta_rank, journals_data[gi].key)
  /\ ji > Len(journals_data[gi].entries)
  /\ gi' = gi + 1
  /\ ji' = 1
  /\ UNCHANGED <<others, request, pc, journals_data, selected, idx, journal,
                 all_results, snippets, postvars, stream, fetchLog>>

\* the groups are exhausted
CatalogEnd ==
  /\ pc = "catalog"
  /\ gi > Len(journals_data)
  /\ pc' = "build"
  /\ UNCHANGED <<others, request, journals_data, loopvars, all_results, snippets,
                 postvars, stream, fetchLog>>

\* Mutant of Fetch: the exception of a failed request is not caught and
\* ends the request with an error event
Fetch_Uncaught ==
  /\ pc \in {"explicit_fetch", "catalog_fetch"}
  /\ \E response \in Responses :
       LET results == search_google(journal, response)
       IN /\ Len(all_results) + Len(results) <= MaxResults
          /\ all_results' = all_results \o results
          /\ snippets' = snippets \o SnippetsOf(results)
          /\ fetchLog' = Append(fetchLog,
               [journal_info |-> journal,
                failed |-> response.kind = "error",
                results |-> results])
          /\ IF response.kind = "error"
               THEN /\ stream' = Append(stream, [type |-> "error", msg |-> "fetch"])
                    /\ pc' = "done"
               ELSE /\ stream' = stream
                    /\ pc' = IF pc = "explicit_fetch" THEN "explicit_sleep"
                                                     ELSE "catalog_sleep"
  /\ UNCHANGED <<others, request, journals_data, loopvars, postvars>>

\* lines 175-177 and 203-205: the fetch of the announced source and the
\* two extend calls
Fetch ==
  /\ pc \in {"explicit_fetch", "catalog_fetch"}
  /\ \E response \in Responses :
       LET results == search_google(journal, response)
       IN /\ Len(all_results) + Len(results) <= MaxResults
          /\ all_results' = all_results \o results
          /\ snippets' = snippets \o SnippetsOf(results)
          /\ fetchLog' = Append(fetchLog,
               [journal_info |-> journal,
                failed |-> response.kind = "error",
                results |-> results])
  /\ pc' = IF pc = "explicit_fetch" THEN "explicit_sleep" ELSE "catalog_sleep"
  /\ UNCHANGED <<others, request, journals_data, loopvars, postvars, stream>>

\* lines 178 and 206: time.sleep(1), then the next entry
Sleep ==
  /\ pc \in {"explicit_sleep", "catalog_sleep"}
  /\ IF pc = "explicit_sleep"
       THEN idx' = idx + 1 /\ ji' = ji /\ pc' = "explicit"
       ELSE ji' = ji + 1 /\ idx' = idx /\ pc' = "catalog"
  /\ UNCHANGED <<others, request, journals_data, selected, gi, journal, all_results,
                 snippets, postvars, stream, fetchLog>>

\* line 209
BuildChains ==
  /\ pc = "build"
  /\ LET built == build_chains(analyzer, topic, snippets)
     IN /\ analyzer' = built.analyzer
        /\ query_terms' = built.query_terms
  /\ builds' = builds + 1
  /\ scored' = 0
  /\ pc' = "score"
  /\ UNCHANGED <<others, request, journals_data, loopvars, all_results, snippets,
                 df_index, stream, fetchLog>>

\* The record after lines 211-213
Scored(result) ==
  LET analysis == calculate_relevance(analyzer, query_terms, result.snippet)
  IN [relevance_score |-> analysis.score,
      lexical_analysis |-> analysis.term_analysis] @@ result

\* lines 210-213: one iteration of the scoring loop
Score ==
  /\ pc = "score"
  /\ scored < Len(all_results)
  /\ all_results' = [all_results EXCEPT ![scored + 1] = Scored(all_results[scored + 1])]
  /\ scored' = scored + 1
  /\ UNCHANGED <<others, request, pc, journals_data, loopvars, snippets, analyzer,
                 query_terms, df_index, builds, stream, fetchLog>>

\* lines 215-220: sort and yield the batch
EmitBatch ==
  /\ pc = "score"
  /\ scored = Len(all_results)
  /\ Len(all_results) > 0
  /\ \E order \in sort_values(all_results) :
       /\ df_index' = order
       /\ stream' = Append(stream, Batch(to_dict(all_results, order)))
  /\ pc' = "done"
  /\ UNCHANGED <<others, request, journals_data, loopvars, all_results, snippets,
                 analyzer, query_terms, scored, builds, fetchLog>>

\* Mutant of EmitDone: an empty batch instead of the sentinel
EmitDone_EmptyBatch ==
  /\ pc = "score"
  /\ scored = Len(all_results)
  /\ Len(all_results) = 0
  /\ stream' = Append(stream, Batch(<<>>))
  /\ pc' = "done"
  /\ UNCHANGED <<others, request, journals_data, loopvars, all_results, snippets,
                 postvars, fetchLog>>

\* lines 221-222
EmitDone ==
  /\ pc = "score"
  /\ scored = Len(all_results)
  /\ Len(all_results) = 0
  /\ stream' = Append(stream, DoneEvent)
  /\ pc' = "done"
  /\ UNCHANGED <<others, request, journals_data, loopvars, all_results, snippets,
                 postvars, fetchLog>>

Next ==
  \/ LoadMissing
  \/ LoadFound
  \/ ParseInvalid
  \/ ParseValid
  \/ EnterCatalog
  \/ ExplicitSkip
  \/ ExplicitAnnounce
  \/ ExplicitEnd
  \/ CatalogSkipGroup
  \/ CatalogSkipRow
  \/ CatalogAnnounce
  \/ CatalogGroupEnd
  \/ CatalogEnd
  \/ Fetch
  \/ Sleep
  \/ BuildChains
  \/ Score
  \/ EmitBatch
  \/ EmitDone

Spec == Init /\ [][Next]_vars

\* generate() up to its first statement that can yield, for one of the
\* requests of reqs
Started(reqs) ==
  /\ \E r \in reqs :
       /\ topic = r.topic
       /\ sinta_rank = r.sinta_rank
       /\ sources_json = r.sources_json
  /\ pc = "load"
  /\ journals_data = <<>>
  /\ selected = <<>>
  /\ idx = 1
  /\ gi = 1
  /\ ji = 1
  /\ journal = NoJournal
  /\ all_results = <<>>
  /\ snippets = <<>>
  /\ analyzer = NewAnalyzer
  /\ query_terms = <<>>
  /\ scored = 0
  /\ df_index = <<>>
  /\ stream = <<>>
  /\ fetchLog = <<>>
  /\ builds = 0

\* ------------------------------------------------------------ scoring runs
\* The requests of the runs the chain model and the scores are examined
\* on: every topic, no rank filter, with no sources_json, an unparsable one
\* and an explicit list
ScoringRequests ==
  {r \in Requests :
     /\ r.sinta_rank = NoneVal
     /\ \/ r.sources_json.kind \in {"none", "unparsable"}
        \/ r.sources_json.items = <<JournalA, HeaderRow, LinkOnly>>}

InitScoring ==
  /\ Started(ScoringRequests)
  /\ files \in FileSystems
  /\ jresp = NoResponse
  /\ client = "connected"
  /\ detected = FALSE
  /\ other = NoOther

SpecScoring == InitScoring /\ [][Next]_vars

\* ------------------------------------------------------ a caller that leaves
\* The requests of the runs in which the caller may leave: one topic, with
\* no sources_json, an unparsable one and an explicit list
DisconnectRequests ==
  {r \in Requests :
     /\ r.topic = <<"Irigasi", "irigasi">>
     /\ r.sinta_rank = NoneVal
     /\ \/ r.sources_json.kind \in {"none", "unparsable"}
        \/ r.sources_json.items = <<JournalA, HeaderRow, LinkOnly>>}

InitDisconnect ==
  /\ Started(DisconnectRequests)
  /\ files \in FileSystems
  /\ jresp = NoResponse
  /\ client = "connected"
  /\ detected = FALSE
  /\ other = NoOther

\* The caller closes the connection, at any moment of the request
Disconnect ==
  /\ client = "connected"
  /\ client' = "gone"
  /\ UNCHANGED <<session, files, jresp, detected, other>>

\* Mutant of Close: the generator is not closed when the write fails
Close_Swallowed ==
  /\ client = "gone"
  /\ ~detected
  /\ pc \in {"explicit_fetch", "catalog_fetch"}
  /\ detected' = TRUE
  /\ UNCHANGED <<session, files, jresp, client, other>>

\* generate is a generator under stream_with_context (lines 130-131): it is
\* suspended at its progress yield (lines 174, 201) while the server writes
\* the event.  When the write to a caller that has left fails, the server
\* closes the generator; no yield of generate is inside a try block, so the
\* generator ends at that yield.  A write to a caller that has left can
\* also succeed, and then the generator goes on.
Close ==
  /\ client = "gone"
  /\ ~detected
  /\ pc \in {"explicit_fetch", "catalog_fetch"}
  /\ detected' = TRUE
  /\ pc' = "closed"
  /\ UNCHANGED <<topic, sinta_rank, sources_json, files, journals_data, loopvars,
                 all_results, snippets, postvars, stream, fetchLog, jresp, client,
                 other>>

NextDisconnect ==
  \/ Next
  \/ Disconnect
  \/ Close

SpecDisconnect == InitDisconnect /\ [][NextDisconnect]_vars

\* ------------------------------------------------------- the catalog query
\* Catalog files for the /journals handler: each of four rank groups is
\* absent, empty or filled, the note and a foreign key are present or not;
\* the file lists NON_SINTA first and the ranks downwards
GroupChoices == {"absent", "empty", "filled"}

Member(key, choice, entries) ==
  IF choice = "absent" THEN <<>>
  ELSE <<[key |-> key, entries |-> IF choice = "empty" THEN <<>> ELSE entries]>>

S_NOTE == <<"n", "o", "t", "e">>

JournalCatalogs ==
  {Member(S_NON_SINTA, n, <<JournalC>>)
     \o Member(S_OTHER, o, <<JournalB>>)
     \o Member(S_SINTA_ \o <<"6">>, g6, <<JournalB>>)
     \o Member(S_SINTA_ \o <<"3">>, g3, <<HeaderRow, JournalA>>)
     \o Member(S_catatan, c, S_NOTE)
     \o Member(S_SINTA_ \o <<"1">>, g1, <<JournalA>>) :
       n \in GroupChoices, g6 \in GroupChoices, g3 \in GroupChoices,
       g1 \in GroupChoices, o \in {"absent", "filled"}, c \in {"absent", "filled"}}

JournalFileSystems ==
  {[generated |-> NoFile, original |-> NoFile]}
  \cup {[generated |-> NoFile, original |-> [exists |-> TRUE, data |-> d]] :
          d \in JournalCatalogs}
  \cup {[generated |-> [exists |-> TRUE, data |-> d],
          original |-> [exists |-> TRUE, data |-> CatalogOriginal]] :
          d \in JournalCatalogs}

\* No /search request is running
NoSearch ==
  /\ topic = <<>>
  /\ sinta_rank = NoneVal
  /\ sources_json = [kind |-> "none", items |-> <<>>]
  /\ pc = "idle"
  /\ journals_data = <<>>
  /\ selected = <<>>
  /\ idx = 1
  /\ gi = 1
  /\ ji = 1
  /\ journal = NoJournal
  /\ all_results = <<>>
  /\ snippets = <<>>
  /\ analyzer = NewAnalyzer
  /\ query_terms = <<>>
  /\ scored = 0
  /\ df_index = <<>>
  /\ stream = <<>>
  /\ fetchLog = <<>>
  /\ builds = 0

InitJournals ==
  /\ NoSearch
  /\ files \in JournalFileSystems
  /\ jresp = NoResponse
  /\ client = "connected"
  /\ detected = FALSE
  /\ other = NoOther

\* lines 229-239: no catalog file, the handler answers 404
JournalsMissing ==
  /\ jresp = NoResponse
  /\ ~LoadCatalog(files).exists
  /\ jresp' = [status |-> 404,
               body |-> <<[key |-> <<"e", "r", "r", "o", "r">>,
                           entries |-> <<"No journal JSON found">>]>>]
  /\ UNCHANGED <<files, session, client, detected, other>>

\* lines 229-253: the catalog is loaded, the rank groups it has are
\* collected in rank order and returned with the note
JournalsFound ==
  /\ jresp = NoResponse
  /\ LoadCatalog(files).exists
  /\ \E sort_keys \in BOOLEAN :
       jresp' = [status |-> 200,
                 body |-> jsonify(ResultDict(LoadCatalog(files).data), sort_keys)]
  /\ UNCHANGED <<files, session, client, detected, other>>

NextJournals ==
  \/ JournalsMissing
  \/ JournalsFound

SpecJournals == InitJournals /\ [][NextJournals]_vars

\* ------------------------------------------------------- claim vocabulary
ProgressEvents == SelectSeq(stream, LAMBDA e : e.type = "progress")
TerminalEvents == SelectSeq(stream, LAMBDA e : e.type # "progress")
BatchEvents == SelectSeq(stream, LAMBDA e : e.type = "batch")
ErrorEvents == SelectSeq(stream, LAMBDA e : e.type = "error")

\* Every candidate a fetch of the request returned, in arrival order
RECURSIVE ReturnedBy(_)
ReturnedBy(log) ==
  IF log = <<>> THEN <<>> ELSE Head(log).results \o ReturnedBy(Tail(log))

\* A candidate record without the two fields the scoring pass adds
Unscored(rec) ==
  [k \in DOMAIN rec \ {"relevance_score", "lexical_analysis"} |-> rec[k]]

IsPermutationOf(a, b) ==
  /\ Len(a) = Len(b)
  /\ \E p \in Orders(Len(a)) : \A i \in DOMAIN a : a[i] = b[p[i]]

\* The sources of the request in processing order, from its inputs alone
RECURSIVE ExplicitSources(_)
ExplicitSources(items) ==
  IF items = <<>> THEN <<>>
  ELSE IF ExplicitSkipped(Head(items)) THEN ExplicitSources(Tail(items))
  ELSE <<NormalizeExplicit(Head(items))>> \o ExplicitSources(Tail(items))

RECURSIVE NamedRows(_, _)
NamedRows(rows, rank) ==
  IF rows = <<>> THEN <<>>
  ELSE IF ~Truthy(DictGet(Head(rows), "nama_jurnal", NoneVal))
    THEN NamedRows(Tail(rows), rank)
    ELSE <<[Head(rows) EXCEPT !.sinta_rank = rank]>> \o NamedRows(Tail(rows), rank)

RECURSIVE CatalogSources(_, _)
CatalogSources(groups, filter) ==
  IF groups = <<>> THEN <<>>
  ELSE IF ~GroupSearched(filter, Head(groups).key)
    THEN CatalogSources(Tail(groups), filter)
    ELSE NamedRows(Head(groups).entries, Head(groups).key)
           \o CatalogSources(Tail(groups), filter)

SelectedSources ==
  IF SourcesGiven(sources_json)
    THEN ExplicitSources(sources_json.items)
    ELSE CatalogSources(LoadCatalog(files).data, sinta_rank)

\* The request got past source resolution: it is in, or after, a retrieval loop
Retrieving == pc \notin {"load", "mode"} /\ ErrorEvents = <<>>

\* ------------------------------------------------------------------ claims
\* C1: the final sort is stable: two candidates of the success batch with
\* the same relevance_score keep their arrival order (stated for two
\* candidates that differ, so that the batch itself shows the order).
C1_SortIsStable ==
  \A i, j \in DOMAIN df_index :
     (/\ i < j
      /\ all_results[df_index[i]].relevance_score
           = all_results[df_index[j]].relevance_score
      /\ all_results[df_index[i]] # all_results[df_index[j]])
       => df_index[i] < df_index[j]

\* C2: a success batch is a permutation of all candidates returned by all
\* fetches of the request, ordered by non-increasing relevance_score, and
\* every record carries the relevance_score and the lexical_analysis that
\* calculate_relevance gives its snippet.
C2_BatchIsSortedPermutation ==
  \A b \in DOMAIN BatchEvents :
     LET articles == BatchEvents[b].articles
     IN /\ IsPermutationOf([i \in DOMAIN articles |-> Unscored(articles[i])],
                           ReturnedBy(fetchLog))
        /\ \A i \in DOMAIN articles :
             /\ {"relevance_score", "lexical_analysis"} \subseteq DOMAIN articles[i]
             /\ LET a == calculate_relevance(analyzer, query_terms, articles[i].snippet)
                IN /\ articles[i].relevance_score = a.score
                   /\ articles[i].lexical_analysis = a.term_analysis
        /\ \A i \in 1..(Len(articles) - 1) :
             articles[i].relevance_score >= articles[i + 1].relevance_score

\* C2 witness: a batch of candidates of two sources, in an order that is
\* not the arrival order, with different scores
C2_Witness ==
  /\ pc = "done"
  /\ Len(BatchEvents) = 1
  /\ Len(fetchLog) >= 2
  /\ \E i, j \in DOMAIN fetchLog : i # j /\ fetchLog[i].results # <<>> /\ fetchLog[j].results # <<>>
  /\ df_index[1] # 1
  /\ LET articles == BatchEvents[1].articles
     IN articles[1].relevance_score > articles[Len(articles)].relevance_score

\* C3: one progress event per selected source, emitted before the source's
\* fetch is issued, in source-processing order; no fetch is issued for a
\* source whose progress event has not been emitted.
C3_ProgressBeforeFetch ==
  LET progress == ProgressEvents
      sources == SelectedSources
  IN /\ Len(fetchLog) <= Len(progress)
     /\ Len(progress) <= Len(fetchLog) + 1
     /\ pc \in {"explicit_fetch", "catalog_fetch"} <=> Len(progress) = Len(fetchLog) + 1
     /\ Len(progress) <= Len(sources)
     /\ \A i \in DOMAIN progress :
          /\ progress[i].name = sources[i].nama_jurnal
          /\ progress[i].rank = sources[i].sinta_rank
     /\ \A i \in DOMAIN fetchLog : fetchLog[i].journal_info = sources[i]
     /\ (Retrieving /\ pc \in {"build", "score", "done"})
          => Len(progress) = Len(sources)

\* C3 witness: a finished request that announced and fetched three sources
C3_Witness ==
  /\ pc = "done"
  /\ Len(ProgressEvents) = 3
  /\ Len(fetchLog) = 3
  /\ ProgressEvents[1].name # ProgressEvents[2].name

\* C4: the success or empty-result event is emitted only after every
\* selected source has been attempted and every candidate scored; the
\* chain model is built once, after the last fetch and before the first
\* score.
C4_TerminalAfterAllSources ==
  /\ builds <= 1
  /\ builds = 1 => Len(fetchLog) = Len(SelectedSources)
  /\ \A i \in DOMAIN all_results :
       "relevance_score" \in DOMAIN all_results[i] => (builds = 1 /\ i <= scored)
  /\ \A e \in DOMAIN stream :
       stream[e].type \in {"batch", "done"} =>
         /\ builds = 1
         /\ Len(fetchLog) = Len(SelectedSources)
         /\ scored = Len(all_results)
         /\ \A i \in DOMAIN all_results : "relevance_score" \in DOMAIN all_results[i]

\* C4 witness: a success batch after a failed and a successful fetch
C4_Witness ==
  /\ pc = "done"
  /\ Len(BatchEvents) = 1
  /\ \E i \in DOMAIN fetchLog : fetchLog[i].failed
  /\ Len(fetchLog) >= 2
  /\ Len(all_results) >= 2

\* C5: no catalog and no explicit source list: the stream is exactly one
\* error event, no progress event is emitted and no fetch is issued.
C5_NoCatalogNoSources ==
  (~LoadCatalog(files).exists /\ ~SourcesGiven(sources_json)) =>
     /\ fetchLog = <<>>
     /\ ProgressEvents = <<>>
     /\ pc \in {"load", "done"}
     /\ pc = "load" => stream = <<>>
     /\ pc = "done" => stream = <<ErrorCatalog>>

\* C5 witness: such a request has ended
C5_Witness ==
  /\ ~LoadCatalog(files).exists
  /\ ~SourcesGiven(sources_json)
  /\ pc = "done"
  /\ Len(stream) = 1

\* C6: with a well-formed explicit list the request retrieves exactly the
\* valid entries of the list, in list order, whatever the rank filter and
\* whether or not a catalog can be loaded.
C6_ExplicitNeedsNoCatalog ==
  (SourcesGiven(sources_json) /\ SourcesValid(sources_json) /\ pc = "done") =>
     /\ ErrorEvents = <<>>
     /\ [i \in DOMAIN fetchLog |-> fetchLog[i].journal_info]
          = ExplicitSources(sources_json.items)

\* C7: an explicit list that is present but no well-formed sequence ends
\* the stream with the single error event for it, not the catalog error,
\* with no progress event and no fetch.
C7_MalformedSourcesError ==
  (SourcesGiven(sources_json) /\ ~SourcesValid(sources_json) /\ pc = "done") =>
     /\ stream = <<ErrorSources>>
     /\ ErrorSources # ErrorCatalog
     /\ fetchLog = <<>>

C9_EmptyResultSentinel ==
  /\ \A b \in DOMAIN BatchEvents : BatchEvents[b].articles # <<>>
  /\ DoneEvent.type \notin {ErrorCatalog.type, ErrorSources.type, "batch"}
  /\ (pc = "done" /\ Retrieving) =>
       /\ Len(TerminalEvents) = 1
       /\ ReturnedBy(fetchLog) = <<>> =>
            stream[Len(stream)].type = "done" /\ BatchEvents = <<>>
       /\ ReturnedBy(fetchLog) # <<>> =>
            stream[Len(stream)].type = "batch"

\* C9 witness: two sources fetched, neither returned a candidate
C9_Witness ==
  /\ pc = "done"
  /\ Len(fetchLog) >= 2
  /\ ReturnedBy(fetchLog) = <<>>
  /\ stream[Len(stream)].type = "done"

\* C10: the groups a rank filter selects, as the claim gives them, for the
\* filters it covers
C10_NoFilter == {NoneVal, S_EMPTY}

C10_NonRankedFilters ==
  {<<"N", "O", "N">>, <<"N", "o", "n", "-", "S", "i", "n", "t", "a">>,
   <<"n", "o", "n", "_", "s", "i", "n", "t", "a">>,
   <<"n", "o", "n", "s", "i", "n", "t", "a">>}

C10_Covered == C10_NoFilter \cup C10_NonRankedFilters \cup {<<"1">>, <<" ", "2", " ">>, <<"0", "2">>}

C10_Selects(filter, key) ==
  CASE filter \in C10_NoFilter ->
         \/ key = S_NON_SINTA
         \/ Len(key) >= 6 /\ SubSeq(key, 1, 6) = S_SINTA_
    [] filter \in C10_NonRankedFilters -> key = S_NON_SINTA
    [] filter = <<"1">> -> key = <<"S", "I", "N", "T", "A", "_", "1">>
    [] filter = <<" ", "2", " ">> -> key = <<"S", "I", "N", "T", "A", "_", "2">>
    [] filter = <<"0", "2">> -> key = <<"S", "I", "N", "T", "A", "_", "0", "2">>

RECURSIVE C10_Sources(_, _)
C10_Sources(groups, filter) ==
  IF groups = <<>> THEN <<>>
  ELSE IF ~C10_Selects(filter, Head(groups).key)
    THEN C10_Sources(Tail(groups), filter)
    ELSE SelectSeq([i \in DOMAIN Head(groups).entries |->
                      [name |-> Head(groups).entries[i].nama_jurnal,
                       rank |-> Head(groups).key]],
                   LAMBDA r : r.name \notin {Absent, NoneVal, S_EMPTY})
           \o C10_Sources(Tail(groups), filter)

\* C10: in catalog mode no filter selects every SINTA_ group and NON_SINTA,
\* a non-ranked sentinel selects NON_SINTA only, a numeric filter n selects
\* the group SINTA_n only; within a selected group exactly the rows that
\* have a name are announced and fetched.
C10_CatalogGroupFilter ==
  (~SourcesGiven(sources_json) /\ LoadCatalog(files).exists /\ sinta_rank \in C10_Covered) =>
     LET expected == C10_Sources(LoadCatalog(files).data, sinta_rank)
     IN /\ \A i \in DOMAIN ProgressEvents :
             /\ i <= Len(expected)
             /\ ProgressEvents[i].name = expected[i].name
             /\ ProgressEvents[i].rank = expected[i].rank
        /\ \A i \in DOMAIN fetchLog :
             /\ i <= Len(expected)
             /\ fetchLog[i].journal_info.nama_jurnal = expected[i].name
             /\ fetchLog[i].journal_info.sinta_rank = expected[i].rank
        /\ pc \in {"build", "score", "done"} =>
             Len(ProgressEvents) = Len(expected) /\ Len(fetchLog) = Len(expected)

\* C10 witness: a numeric filter written with blanks selected its one
\* group, whose row was announced and fetched
C10_Witness ==
  /\ pc = "done"
  /\ sinta_rank = <<" ", "2", " ">>
  /\ Len(ProgressEvents) = 1
  /\ Len(fetchLog) = 1
  /\ ProgressEvents[1].name = <<"B">>

\* C11: what the claim expects the explicit loop to announce for a list:
\* entries with neither name nor link left out, a missing name replaced by
\* the link, a missing rank replaced by SELECTED
RECURSIVE C11_Expected(_)
C11_Expected(items) ==
  IF items = <<>> THEN <<>>
  ELSE LET e == Head(items)
           name == e.nama_jurnal
           rank == e.sinta_rank
       IN IF name \in {Absent, NoneVal, S_EMPTY} /\ e.link \in {Absent, NoneVal, S_EMPTY}
            THEN C11_Expected(Tail(items))
            ELSE <<[name |-> IF name \in {Absent, NoneVal, S_EMPTY} THEN e.link ELSE name,
                    rank |-> IF rank \in {Absent, NoneVal} THEN S_SELECTED ELSE rank]>>
                   \o C11_Expected(Tail(items))

\* C11: in explicit mode an entry with neither a name nor a link is never
\* announced nor fetched, an entry with a link but no name is announced and
\* fetched under its link as name, and an entry with no rank is announced
\* with the SELECTED label.
C11_ExplicitDefaults ==
  (SourcesGiven(sources_json) /\ SourcesValid(sources_json)) =>
     LET expected == C11_Expected(sources_json.items)
         progress == ProgressEvents
     IN /\ \A i \in DOMAIN progress :
             /\ i <= Len(expected)
             /\ progress[i].name = expected[i].name
             /\ progress[i].rank = expected[i].rank
        /\ \A i \in DOMAIN fetchLog :
             /\ i <= Len(expected)
             /\ fetchLog[i].journal_info.nama_jurnal = expected[i].name

\* ------------------------------------------------ scoring claim vocabulary
\* The terms of a text, counted and collected token by token
TermsOf(text) ==
  {Lemma(TokLower(text[i])) : i \in {k \in DOMAIN text :
                                      IsAlpha(TokLower(text[k])) /\ ~IsStop(TokLower(text[k]))}}

SeqRange(seq) == {seq[i] : i \in DOMAIN seq}

RECURSIVE SumOver(_, _)
SumOver(f, S) ==
  IF S = {} THEN 0
  ELSE LET x == CHOOSE y \in S : TRUE IN f[x] + SumOver(f, S \ {x})

\* The chain model has been built and is the one the scores come from
Built == builds = 1

\* C12: the score the claim gives a snippet: over every position of the
\* query terms whose term is in the snippet, the term's occurrence count
\* plus one for each distinct successor of the term that is in the snippet
C12_Score(an, q_terms, snippet) ==
  LET in_snippet == TermsOf(snippet)
      hits == {i \in DOMAIN q_terms : q_terms[i] \in in_snippet}
      part == [i \in hits |->
                 DefaultGet(an.term_frequencies, q_terms[i], 0)
                 + Cardinality(SeqRange(DefaultGet(an.lexical_chains, q_terms[i], <<>>))
                               \cap in_snippet)]
  IN SumOver(part, hits)

\* C12: every scored candidate's relevance_score is that sum, its
\* lexical_analysis has one entry per query-term position found in the
\* snippet and none for the others; with no query term the score is 0 and
\* the analysis empty.
C12_ScoreIsSumOverQueryTerms ==
  \A r \in DOMAIN all_results :
     "relevance_score" \in DOMAIN all_results[r] =>
        LET rec == all_results[r]
            in_snippet == TermsOf(rec.snippet)
        IN /\ rec.relevance_score = C12_Score(analyzer, query_terms, rec.snippet)
           /\ Len(rec.lexical_analysis)
                = Cardinality({i \in DOMAIN query_terms : query_terms[i] \in in_snippet})
           /\ \A k \in DOMAIN rec.lexical_analysis :
                rec.lexical_analysis[k].term \in in_snippet
           /\ query_terms = <<>> =>
                rec.relevance_score = 0 /\ rec.lexical_analysis = <<>>

\* C12 witness: a duplicated query term, each position scored 2 + 2
C12_Witness ==
  /\ pc = "done"
  /\ Len(query_terms) = 2
  /\ query_terms[1] = query_terms[2]
  /\ \E r \in DOMAIN all_results :
       /\ all_results[r].relevance_score = 8
       /\ Len(all_results[r].lexical_analysis) = 2
  /\ \E r \in DOMAIN all_results : all_results[r].relevance_score = 0

\* The corpus of the request: the query terms, then the terms of every
\* pooled snippet in arrival order
Corpus == process_text(topic) \o ExtendTerms(snippets)

\* The number of terms of a text, counted on its tokens
TermCount(text) ==
  Cardinality({k \in DOMAIN text :
                 IsAlpha(TokLower(text[k])) /\ ~IsStop(TokLower(text[k]))})

\* The number of successor links an analyzer holds, with multiplicity
LinkCount(an) ==
  SumOver([t \in DOMAIN an.lexical_chains |-> Len(an.lexical_chains[t])],
          DOMAIN an.lexical_chains)

\* C15: for a corpus of n terms (query terms, then every pooled snippet's
\* terms) chain construction records exactly n - 1 successor links with
\* multiplicity, links across the query/snippet and snippet/snippet
\* boundaries included, and none for n <= 1.
C15_LinkCount ==
  Built =>
    LET n == TermCount(topic)
               + SumOver([i \in DOMAIN snippets |-> TermCount(snippets[i])], DOMAIN snippets)
    IN /\ LinkCount(analyzer) = IF n <= 1 THEN 0 ELSE n - 1
       /\ SumOver([t \in DOMAIN analyzer.term_details |->
                     SumCounts(analyzer.term_details[t].connected_terms)],
                  DOMAIN analyzer.term_details) = LinkCount(analyzer)

\* C15 witness: a two-term query and three pooled snippets, eight terms in all:
\* every boundary carries a link
C15_Witness ==
  /\ Built
  /\ TermCount(topic) = 2
  /\ Len(snippets) = 3
  /\ LinkCount(analyzer) = 7

\* C16: after construction, and after every step of it, the occurrence
\* count of a term is the number of positions where it is followed by
\* another term, and equals the sum of its successor counts; the last
\* position of the stream adds nothing.
C16_OccurrenceCounts ==
  Built =>
    LET corpus == Corpus
        n == Len(corpus)
    IN /\ \A t \in SeqRange(corpus) \cup DOMAIN analyzer.term_frequencies :
            DefaultGet(analyzer.term_frequencies, t, 0)
              = Cardinality({i \in 1..(n - 1) : corpus[i] = t})
       /\ \A k \in 1..n :
            LET an == ChainLoop(NewAnalyzer, SubSeq(corpus, 1, k), 1)
            IN /\ DOMAIN an.term_frequencies = DOMAIN an.term_details
               /\ \A t \in DOMAIN an.term_details :
                    /\ an.term_frequencies[t] = an.term_details[t].count
                    /\ an.term_frequencies[t] = SumCounts(an.term_details[t].connected_terms)
                    /\ an.term_frequencies[t] = Len(an.lexical_chains[t])
       /\ n >= 1 => analyzer = ChainLoop(NewAnalyzer, corpus, 1)

\* C16 witness: the last term of the stream also occurs earlier, followed
\* by two different terms
C16_Witness ==
  /\ Built
  /\ Len(Corpus) >= 4
  /\ LET last == Corpus[Len(Corpus)]
     IN /\ DefaultGet(analyzer.term_frequencies, last, 0) = 2
        /\ Cardinality({i \in DOMAIN Corpus : Corpus[i] = last}) = 3
        /\ Len(analyzer.term_details[last].connected_terms) = 2

\* C17: duplicate query terms are scored once per occurrence: against the
\* request's chain model and any pooled snippet, the query [a, a] scores
\* twice the query [a] and has twice its contribution entries, and the
\* contributions follow the order of the query terms.
C17_DuplicateQueryTerms ==
  Built =>
    /\ \A s \in DOMAIN snippets : \A a \in SeqRange(Corpus) :
         LET one == calculate_relevance(analyzer, <<a>>, snippets[s])
             two == calculate_relevance(analyzer, <<a, a>>, snippets[s])
         IN /\ two.score = 2 * one.score
            /\ Len(two.term_analysis) = 2 * Len(one.term_analysis)
    /\ \A s \in DOMAIN snippets :
         LET analysis == calculate_relevance(analyzer, query_terms, snippets[s])
         IN [k \in DOMAIN analysis.term_analysis |-> analysis.term_analysis[k].term]
              = SelectSeq(query_terms, LAMBDA t : t \in TermsOf(snippets[s]))

\* C17 witness: a candidate scored under a query that repeats its only
\* matching term
C17_Witness ==
  /\ pc = "done"
  /\ query_terms = <<"irigasi", "irigasi">>
  /\ \E r \in DOMAIN all_results :
       /\ Len(all_results[r].lexical_analysis) = 2
       /\ all_results[r].relevance_score
            = 2 * calculate_relevance(analyzer, <<"irigasi">>, all_results[r].snippet).score
       /\ all_results[r].relevance_score >= 2

\* The candidate's snippet shares a term with the topic
SharesTerm(rec) == TermsOf(topic) \cap TermsOf(rec.snippet) # {}

\* C18: in the full pipeline a candidate whose snippet has no query term
\* scores 0 and one whose snippet has a query term scores at least 1, so
\* the batch places every candidate sharing a term with the topic above
\* every candidate sharing none.
C18_SharedTermsRankFirst ==
  /\ \A r \in DOMAIN all_results :
       "relevance_score" \in DOMAIN all_results[r] =>
          /\ SharesTerm(all_results[r]) => all_results[r].relevance_score >= 1
          /\ ~SharesTerm(all_results[r]) => all_results[r].relevance_score = 0
  /\ \A b \in DOMAIN BatchEvents :
       LET articles == BatchEvents[b].articles
       IN \A i, j \in DOMAIN articles :
            (SharesTerm(articles[i]) /\ ~SharesTerm(articles[j])) => i < j

\* C18 witness: the candidate that arrived second shares a term with the
\* topic and leads the batch, the one that arrived first shares none
C18_Witness ==
  /\ pc = "done"
  /\ Len(BatchEvents) = 1
  /\ Len(all_results) >= 2
  /\ ~SharesTerm(all_results[1])
  /\ SharesTerm(all_results[2])
  /\ SharesTerm(BatchEvents[1].articles[1])

\* C19: a request that runs to completion emits exactly one terminal event
\* (error, batch or DONE), which ends the stream: no progress event, fetch
\* or second terminal event follows it, and an error event is never
\* preceded by a progress event.
C19_OneTerminalEvent ==
  /\ Len(TerminalEvents) <= 1
  /\ pc = "done" <=> Len(TerminalEvents) = 1
  /\ Len(TerminalEvents) = 1 =>
       /\ stream[Len(stream)].type # "progress"
       /\ ~ENABLED Next
  /\ ErrorEvents # <<>> => (Len(stream) = 1 /\ fetchLog = <<>>)

\* C19 witness: a finished request with progress events before its one
\* terminal event
C19_Witness ==
  /\ pc = "done"
  /\ Len(stream) >= 3
  /\ Len(TerminalEvents) = 1
  /\ stream[Len(stream)].type = "done"

\* The rank groups in rank order, then the non-ranked group
RankGroups == SintaKeys \o <<S_NON_SINTA>>

\* The keys of a response body, in the order they are written
KeysOf(body) == [i \in DOMAIN body |-> body[i].key]

\* C13: the catalog query returns the groups in the order SINTA_1 ..
\* SINTA_6, then NON_SINTA, leaves out every group that is absent from the
\* catalog or empty, and returns those groups and the note only.
C13_CatalogQuery ==
  jresp.status = 200 =>
    LET data == LoadCatalog(files).data
        kept == SelectSeq(RankGroups,
                          LAMBDA k : \E i \in DOMAIN data :
                                       data[i].key = k /\ data[i].entries # <<>>)
    IN /\ SelectSeq(KeysOf(jresp.body), LAMBDA k : k # S_catatan) = kept
       /\ Cardinality({i \in DOMAIN jresp.body : jresp.body[i].key = S_catatan}) = 1

MaxOtherResults == 1

\* The state of the first request and of the rest of the server
first == <<session, files, jresp, client, detected>>

TwoRequests ==
  {r \in Requests :
     /\ r.topic = <<"Irigasi", "irigasi">>
     /\ \/ r.sinta_rank = <<"1">> /\ r.sources_json.kind \in {"none", "unparsable"}
        \/ r.sinta_rank = NoneVal /\ r.sources_json.items = <<JournalA, HeaderRow, LinkOnly>>}

InitTwo ==
  /\ Started(TwoRequests)
  /\ files \in {fs \in FileSystems : ~fs.generated.exists}
  /\ jresp = NoResponse
  /\ client = "connected"
  /\ detected = FALSE
  /\ other = [NoOther EXCEPT !.topic = <<"air", "sistemnya">>,
                             !.sinta_rank = <<"1">>, !.pc = "load"]

\* lines 141-152 in the second frame
O_LoadMissing ==
  /\ other.pc = "load"
  /\ ~LoadCatalog(files).exists
  /\ other' = [other EXCEPT !.stream = Append(@, ErrorCatalog), !.pc = "done"]
  /\ UNCHANGED first

\* lines 141-148 and 191-200 in the second frame: the catalog is loaded;
\* todo holds the rows the two loops will reach, labelled with their group
O_LoadFound ==
  /\ other.pc = "load"
  /\ LoadCatalog(files).exists
  /\ other' = [other EXCEPT
                 !.todo = CatalogSources(LoadCatalog(files).data, other.sinta_rank),
                 !.pc = "catalog"]
  /\ UNCHANGED first

\* lines 201-202 in the second frame
O_Announce ==
  /\ other.pc = "catalog"
  /\ other.todo # <<>>
  /\ LET j == Head(other.todo)
     IN other' = [other EXCEPT
                    !.journal = j,
                    !.todo = Tail(@),
                    !.stream = Append(@, Progress(j.nama_jurnal, j.sinta_rank)),
                    !.pc = "fetch"]
  /\ UNCHANGED first

\* the loops of lines 191-206 end in the second frame
O_End ==
  /\ other.pc = "catalog"
  /\ other.todo = <<>>
  /\ other' = [other EXCEPT !.pc = "build"]
  /\ UNCHANGED first

\* lines 203-205 in the second frame
O_Fetch ==
  /\ other.pc = "fetch"
  /\ \E response \in Responses :
       LET results == search_google(other.journal, response)
       IN /\ Len(other.all_results) + Len(results) <= MaxOtherResults
          /\ other' = [other EXCEPT
                         !.all_results = @ \o results,
                         !.snippets = @ \o SnippetsOf(results),
                         !.fetchLog = Append(@, [journal_info |-> other.journal,
                                                 failed |-> response.kind = "error",
                                                 results |-> results]),
                         !.pc = "sleep"]
  /\ UNCHANGED first

\* line 206 in the second frame
O_Sleep ==
  /\ other.pc = "sleep"
  /\ other' = [other EXCEPT !.pc = "catalog"]
  /\ UNCHANGED first

\* Mutant of O_BuildChains: one analyzer object serves every request
O_BuildChains_Shared ==
  /\ other.pc = "build"
  /\ LET built == build_chains(analyzer, other.topic, other.snippets)
     IN /\ other' = [other EXCEPT
                       !.analyzer = built.analyzer,
                       !.query_terms = built.query_terms,
                       !.pc = "score"]
        /\ analyzer' = built.analyzer
  /\ UNCHANGED <<topic, sinta_rank, sources_json, pc, journals_data, loopvars,
                 all_results, snippets, query_terms, scored, df_index, builds,
                 stream, fetchLog, files, jresp, client, detected>>

\* line 209 in the second frame, on the analyzer made at line 138 of that
\* frame
O_BuildChains ==
  /\ other.pc = "build"
  /\ LET built == build_chains(other.analyzer, other.topic, other.snippets)
     IN other' = [other EXCEPT
                    !.analyzer = built.analyzer,
                    !.query_terms = built.query_terms,
                    !.pc = "score"]
  /\ UNCHANGED first

\* lines 210-213 in the second frame: one iteration of the scoring loop
O_Score ==
  /\ other.pc = "score"
  /\ other.scored < Len(other.all_results)
  /\ LET k == other.scored + 1
         analysis == calculate_relevance(other.analyzer, other.query_terms,
                                         other.all_results[k].snippet)
     IN other' = [other EXCEPT
                    !.all_results[k] = [relevance_score |-> analysis.score,
                                        lexical_analysis |-> analysis.term_analysis] @@ @,
                    !.scored = k]
  /\ UNCHANGED first

\* lines 215-220 in the second frame
O_EmitBatch ==
  /\ other.pc = "score"
  /\ other.scored = Len(other.all_results)
  /\ Len(other.all_results) > 0
  /\ \E order \in sort_values(other.all_results) :
       other' = [other EXCEPT
                   !.stream = Append(@, Batch(to_dict(other.all_results, order))),
                   !.pc = "done"]
  /\ UNCHANGED first

\* lines 221-222 in the second frame
O_EmitDone ==
  /\ other.pc = "score"
  /\ other.scored = Len(other.all_results)
  /\ Len(other.all_results) = 0
  /\ other' = [other EXCEPT !.stream = Append(@, DoneEvent), !.pc = "done"]
  /\ UNCHANGED first

NextTwo ==
  \/ Next
  \/ O_LoadMissing
  \/ O_LoadFound
  \/ O_Announce
  \/ O_End
  \/ O_Fetch
  \/ O_Sleep
  \/ O_BuildChains
  \/ O_Score
  \/ O_EmitBatch
  \/ O_EmitDone

SpecTwo == InitTwo /\ [][NextTwo]_vars

\* What a request that runs alone yields last, from its topic and from what
\* its own fetches returned: the candidates, each scored against the chain
\* model of that topic and of those candidates' snippets
Alone(a_topic, log) ==
  LET results == ReturnedBy(log)
      built == build_chains(NewAnalyzer, a_topic, SnippetsOf(results))
  IN [i \in DOMAIN results |->
        LET analysis == calculate_relevance(built.analyzer, built.query_terms,
                                            results[i].snippet)
        IN [relevance_score |-> analysis.score,
            lexical_analysis |-> analysis.term_analysis] @@ results[i]]

\* The events of a finished stream are those of the request alone: one
\* progress event per source of the request, in order, then the batch of
\* its own candidates in non-increasing score order, or DONE without any
AloneStream(events, sources, a_topic, log) ==
  LET n == Len(sources)
  IN /\ Len(events) = n + 1
     /\ Len(log) = n
     /\ \A i \in 1..n :
          /\ events[i] = Progress(sources[i].nama_jurnal, sources[i].sinta_rank)
          /\ log[i].journal_info = sources[i]
     /\ IF ReturnedBy(log) = <<>>
          THEN events[n + 1] = DoneEvent
          ELSE /\ events[n + 1].type = "batch"
               /\ IsPermutationOf(events[n + 1].articles, Alone(a_topic, log))
               /\ \A i \in 1..(Len(events[n + 1].articles) - 1) :
                    events[n + 1].articles[i].relevance_score
                      >= events[n + 1].articles[i + 1].relevance_score

\* C20: two requests that run concurrently share no session state: under
\* every interleaving, the result set, the snippet pool and the chain model
\* of each are made of its own fetches only, and the events and the scored
\* batch of each are those of the request run alone.
C20_SessionsIsolated ==
  /\ all_results = <<>> \/ IsPermutationOf([i \in DOMAIN all_results |-> Unscored(all_results[i])],
                                           ReturnedBy(fetchLog))
  /\ snippets = SnippetsOf(ReturnedBy(fetchLog))
  /\ other.snippets = SnippetsOf(ReturnedBy(other.fetchLog))
  /\ pc \in {"score", "done"} /\ builds = 1
       => analyzer = build_chains(NewAnalyzer, topic, snippets).analyzer
  /\ other.pc \in {"score", "done"} /\ LoadCatalog(files).exists
       => other.analyzer = build_chains(NewAnalyzer, other.topic, other.snippets).analyzer
  /\ (pc = "done" /\ ErrorEvents = <<>>)
       => AloneStream(stream, SelectedSources, topic, fetchLog)
  /\ (other.pc = "done" /\ LoadCatalog(files).exists)
       => AloneStream(other.stream,
                      CatalogSources(LoadCatalog(files).data, other.sinta_rank),
                      other.topic, other.fetchLog)

\* C20 witness: both requests finished with a batch, the second one built
\* its chain model after the first had built its own, and the two models
\* differ
C20_Witness ==
  /\ pc = "done"
  /\ other.pc = "done"
  /\ BatchEvents # <<>>
  /\ other.stream[Len(other.stream)].type = "batch"
  /\ analyzer # other.analyzer
  /\ analyzer # NewAnalyzer
  /\ other.analyzer # NewAnalyzer

====
